---- MODULE Spec2Model ----
(***************************************************************************)
(* A model of py_music_tools (src/main.py): the scan of a directory for    *)
(* music files, the construction of MusicSong objects from tag values, the *)
(* statistics pass, and the materialization of the artist/album/title      *)
(* tree (build_directory_tree, move_files_to_folders).                     *)
(*                                                                         *)
(* A Python str is a sequence of characters; a character is a one-element  *)
(* token ("a", "B", "_", ...).  A path is the sequence of its segments     *)
(* below target_dir.  An uncaught Python exception ends the function that  *)
(* raised it: its pc becomes "raised" and the exception's name is kept.    *)
(***************************************************************************)
EXTENDS Integers, Sequences, FiniteSets, TLC

VARIABLES
    \* to_snake_case called on its own
    string, snake, snake_pc,
    \* create_musicsong_object
    audio, song, song_pc,
    \* get_music_files_list, as main calls it
    scan_dir, scan_i, valid_files_list, scan_log, scan_pc, main_pc,
    \* get_statistics
    musicsong_object_list, entry_list, stat_i, artist_list, album_list,
    title_list, stats, stat_pc, stat_exc,
    \* build_directory_tree and move_files_to_folders
    op, data_dictionary, dirs, pos, unknown_titles, mkdir_calls, renames,
    mat_pc, mat_exc

snakeVars == <<string, snake, snake_pc>>
songVars == <<audio, song, song_pc>>
scanVars == <<scan_dir, scan_i, valid_files_list, scan_log, scan_pc, main_pc>>
statVars == <<musicsong_object_list, entry_list, stat_i, artist_list, album_list,
              title_list, stats, stat_pc, stat_exc>>
matVars == <<op, data_dictionary, dirs, pos, unknown_titles, mkdir_calls, renames,
             mat_pc, mat_exc>>
vars == <<snakeVars, songVars, scanVars, statVars, matVars>>

(***************************************************************************)
(* Bounds of the model.                                                    *)
(***************************************************************************)
MaxLen == 3
MaxFiles == 3
MaxSongs == 2
MaxTracks == 2

(***************************************************************************)
(* Characters and strings.                                                 *)
(***************************************************************************)
Lowers == <<"a","b","c","d","e","f","g","h","i","j","k","l","m",
            "n","o","p","q","r","s","t","u","v","w","x","y","z">>
Uppers == <<"A","B","C","D","E","F","G","H","I","J","K","L","M",
            "N","O","P","Q","R","S","T","U","V","W","X","Y","Z">>
Digits == {"0","1","2","3","4","5","6","7","8","9"}

Range(f) == {f[i] : i \in DOMAIN f}

\* [a-z], [A-Z], [a-zA-Z0-9] of the regular expression
IsLower(c) == c \in Range(Lowers)
IsUpper(c) == c \in Range(Uppers)
IsAlnum(c) == IsLower(c) \/ IsUpper(c) \/ c \in Digits

\* str.lower() on one character
LowerChar(c) ==
    IF IsUpper(c) THEN Lowers[CHOOSE i \in DOMAIN Uppers : Uppers[i] = c] ELSE c

\* str(n) for the small naturals a counter takes
DigitSeq == <<"0","1","2","3","4","5","6","7","8","9">>
RECURSIVE IntToStr(_)
IntToStr(n) == IF n < 10 THEN <<DigitSeq[n + 1]>>
               ELSE IntToStr(n \div 10) \o <<DigitSeq[(n % 10) + 1]>>

\* the strings over alphabet A of length at most n
StringsUpTo(A, n) == UNION {[1..k -> A] : k \in 0..n}

(***************************************************************************)
(* to_snake_case (main.py:55-57):                                          *)
(*   re.sub("__+", "_",                                                    *)
(*     re.sub(r"(?<=[a-z])(?=[A-Z])|[^a-zA-Z0-9]", "_", s).strip("_")      *)
(*       .lower())                                                         *)
(***************************************************************************)
\* the inner re.sub: "_" is inserted between a lowercase letter and the
\* uppercase letter that follows it, and replaces each other character
RECURSIVE SubBoundaries(_, _)
SubBoundaries(s, i) ==
    IF i > Len(s) THEN <<>>
    ELSE (IF i > 1 /\ IsLower(s[i - 1]) /\ IsUpper(s[i]) THEN <<"_">> ELSE <<>>)
         \o (IF IsAlnum(s[i]) THEN <<s[i]>> ELSE <<"_">>)
         \o SubBoundaries(s, i + 1)

RECURSIVE LStrip(_)
LStrip(s) == IF s # <<>> /\ Head(s) = "_" THEN LStrip(Tail(s)) ELSE s

RECURSIVE RStrip(_)
RStrip(s) == IF s # <<>> /\ s[Len(s)] = "_" THEN RStrip(SubSeq(s, 1, Len(s) - 1)) ELSE s

\* str.strip("_")
StripNoStrip(s) == s
Strip(s) == RStrip(LStrip(s))

\* str.lower()
LowerStr(s) == [i \in DOMAIN s |-> LowerChar(s[i])]

\* the outer re.sub("__+", "_", .): a run of two or more "_" becomes one
RECURSIVE SubRuns(_)
SubRuns(s) ==
    IF s = <<>> THEN <<>>
    ELSE IF Head(s) = "_" /\ Len(s) > 1 /\ s[2] = "_" THEN SubRuns(Tail(s))
    ELSE <<Head(s)>> \o SubRuns(Tail(s))

to_snake_case(s) == SubRuns(LowerStr(Strip(SubBoundaries(s, 1))))

(***************************************************************************)
(* String literals of the program.                                         *)
(***************************************************************************)
Unknown == <<"U","n","k","n","o","w","n">>
Empty == <<"E","m","p","t","y">>
EmptyStr == <<>>
Space == <<" ">>

\* two characters outside ASCII: U+00E9 (e acute), which unidecode maps to "e",
\* and U+E000 (private use), for which unidecode has no mapping
EAcute == "U+00E9"
PrivateUse == "U+E000"

\* tuple of "unset" / one value, for a variable not yet assigned
NoValue == <<>>

(***************************************************************************)
(* to_snake_case on its own: the argument is any string of at most MaxLen  *)
(* characters over SnakeAlphabet.                                          *)
(***************************************************************************)
SnakeAlphabet == {"a", "B", "0", "_", "-", EAcute}

SnakeIdle == /\ string = EmptyStr
             /\ snake = NoValue
             /\ snake_pc = "idle"

SnakeInit == /\ string \in StringsUpTo(SnakeAlphabet, MaxLen)
             /\ snake = NoValue
             /\ snake_pc = "call"

CallToSnakeCase ==
    /\ snake_pc = "call"
    /\ snake' = <<to_snake_case(string)>>
    /\ snake_pc' = "returned"
    /\ UNCHANGED <<string, songVars, scanVars, statVars, matVars>>

(***************************************************************************)
(* MusicSong (main.py:184-241) and create_musicsong_object (main.py:88-95) *)
(***************************************************************************)
Fields == {"artist", "album", "title"}

\* id3_tag_to_str: " ".join(tag).  Joining the str "" (the fallback) or the
\* empty list gives "".
RECURSIVE id3_tag_to_str(_)
id3_tag_to_str(tag) ==
    IF tag = <<>> THEN EmptyStr
    ELSE IF Len(tag) = 1 THEN tag[1]
    ELSE tag[1] \o Space \o id3_tag_to_str(Tail(tag))

\* get_key_with_fallback(file, key) with the default fallback "": file[key],
\* or the fallback when the key is missing (KeyError)
get_key_with_fallback(file, key) ==
    IF key \in DOMAIN file THEN file[key] ELSE EmptyStr

\* unidecode, character by character
UnidecodeChar(c) ==
    IF c = EAcute THEN <<"e">>
    ELSE IF c = PrivateUse THEN <<>>
    ELSE <<c>>

RECURSIVE unidecode(_)
unidecode(s) == IF s = <<>> THEN <<>> ELSE UnidecodeChar(Head(s)) \o unidecode(Tail(s))

\* _artist_ascii_default, _album_ascii_default, _title_ascii_default
AsciiDefault(raw) == IF unidecode(raw) = EmptyStr THEN Empty ELSE unidecode(raw)

\* MusicSong(file_path, artist, album, title): the three tag values are passed,
\* so attrs runs their converter and never their @default methods; the three
\* init=False attributes take their defaults
MusicSong(file_path, artist, album, title) ==
    [file_path    |-> file_path,
     artist       |-> id3_tag_to_str(artist),
     album        |-> id3_tag_to_str(album),
     title        |-> id3_tag_to_str(title),
     artist_ascii |-> AsciiDefault(id3_tag_to_str(artist)),
     album_ascii  |-> AsciiDefault(id3_tag_to_str(album)),
     title_ascii  |-> AsciiDefault(id3_tag_to_str(title))]

create_musicsong_object(file, tags) ==
    MusicSong(file, get_key_with_fallback(tags, "artist"),
                    get_key_with_fallback(tags, "album"),
                    get_key_with_fallback(tags, "title"))

\* what the tag reader can hand back for one key: an empty list, lists of empty
\* or whitespace-only strings, lists of non-empty strings
TagValues == { <<>>, <<EmptyStr>>, <<Space>>, <<EmptyStr, EmptyStr>>,
               << <<"A", " ", "b">> >>, << <<EAcute>> >>, << <<PrivateUse>> >> }

\* the tag reader's outputs: each key missing or holding one of TagValues
TagReaderOutputs == UNION {[D -> TagValues] : D \in SUBSET Fields}

SongIdle == /\ audio = <<>>
            /\ song = NoValue
            /\ song_pc = "idle"

SongInit == /\ audio \in TagReaderOutputs
            /\ song = NoValue
            /\ song_pc = "call"

CreateMusicSongObject ==
    /\ song_pc = "call"
    /\ song' = <<create_musicsong_object("f1", audio)>>
    /\ song_pc' = "returned"
    /\ UNCHANGED <<audio, snakeVars, scanVars, statVars, matVars>>

(***************************************************************************)
(* get_music_files_list (main.py:69-85), called by main (main.py:322).     *)
(* scan_dir is what directory.rglob("*") yields, in order; each entry is   *)
(*   "dir"   : item.is_file() is false                                     *)
(*   "music" : mutagen.File returns a mutagen.FileType                     *)
(*   "other" : mutagen.File returns something else (None)                  *)
(*   "error" : mutagen.File raises                                         *)
(* An entry is identified by its index in scan_dir.                        *)
(***************************************************************************)
EntryKinds == {"dir", "music", "other", "error"}

ScanIdle == /\ scan_dir = <<>>
            /\ scan_i = 0
            /\ valid_files_list = <<>>
            /\ scan_log = <<>>
            /\ scan_pc = "idle"
            /\ main_pc = "idle"

ScanInit == /\ scan_dir \in StringsUpTo(EntryKinds, MaxFiles)
            /\ scan_i = 1
            /\ valid_files_list = <<>>
            /\ scan_log = <<>>
            /\ scan_pc = "loop"
            /\ main_pc = "line322"

ScanAt(kind) == /\ scan_pc = "loop"
                /\ scan_i <= Len(scan_dir)
                /\ scan_dir[scan_i] = kind

\* line 75: not a file, nothing is done
ScanSkipDirectory ==
    /\ ScanAt("dir")
    /\ scan_i' = scan_i + 1
    /\ UNCHANGED <<scan_dir, valid_files_list, scan_log, scan_pc, main_pc>>
    /\ UNCHANGED <<snakeVars, songVars, statVars, matVars>>

\* lines 77-78
ScanMusicFile ==
    /\ ScanAt("music")
    /\ valid_files_list' = Append(valid_files_list, scan_i)
    /\ scan_i' = scan_i + 1
    /\ UNCHANGED <<scan_dir, scan_log, scan_pc, main_pc>>
    /\ UNCHANGED <<snakeVars, songVars, statVars, matVars>>

\* lines 79-80
ScanNonMusicFile ==
    /\ ScanAt("other")
    /\ scan_log' = Append(scan_log, [level |-> "warning", item |-> scan_i])
    /\ scan_i' = scan_i + 1
    /\ UNCHANGED <<scan_dir, valid_files_list, scan_pc, main_pc>>
    /\ UNCHANGED <<snakeVars, songVars, statVars, matVars>>

\* a variant of ScanReadError in which the handler does not re-raise
ScanReadErrorSwallowed ==
    /\ ScanAt("error")
    /\ scan_log' = Append(scan_log, [level |-> "error", item |-> scan_i])
    /\ scan_i' = scan_i + 1
    /\ UNCHANGED <<scan_dir, valid_files_list, scan_pc, main_pc>>
    /\ UNCHANGED <<snakeVars, songVars, statVars, matVars>>

\* lines 81-83: the error is logged and raised again; main (line 322) does not
\* catch it, nor does the module's last line, so the run ends
ScanReadError ==
    /\ ScanAt("error")
    /\ scan_log' = Append(scan_log, [level |-> "error", item |-> scan_i])
    /\ scan_pc' = "raised"
    /\ main_pc' = "aborted"
    /\ UNCHANGED <<scan_dir, scan_i, valid_files_list>>
    /\ UNCHANGED <<snakeVars, songVars, statVars, matVars>>

\* lines 84-85: the loop is over, the list is returned to main
ScanReturn ==
    /\ scan_pc = "loop"
    /\ scan_i > Len(scan_dir)
    /\ scan_log' = Append(scan_log, [level |-> "info", item |-> Len(valid_files_list)])
    /\ scan_pc' = "returned"
    /\ main_pc' = "line323"
    /\ UNCHANGED <<scan_dir, scan_i, valid_files_list>>
    /\ UNCHANGED <<snakeVars, songVars, statVars, matVars>>

(***************************************************************************)
(* get_statistics (main.py:98-134).  Stats is a namedtuple (main.py:179):  *)
(* assigning to one of its fields raises AttributeError.                   *)
(***************************************************************************)
\* Stats(): every field at its default
Stats == [f \in {"artists", "albums", "titles", "unknown_artists", "unknown_albums",
                 "unknown_titles", "empty_artists", "empty_albums", "empty_titles"} |-> 0]

NoException == [name |-> "none", line |-> 0]
Raised(name, line) == [name |-> name, line |-> line]

Contains(list, x) == \E i \in DOMAIN list : list[i] = x

\* lines 107-112, for one item: the exception raised, if any, and artist_list after
ArtistBlock(item, list) ==
    IF item.artist = Unknown
      THEN [exc |-> Raised("AttributeError", 108), list |-> list]
      ELSE LET l2 == IF Contains(list, item.artist) THEN list ELSE Append(list, item.artist)
           IN  IF item.artist_ascii = Empty
                 THEN [exc |-> Raised("AttributeError", 112), list |-> l2]
                 ELSE [exc |-> NoException, list |-> l2]

\* lines 114-119: line 115 names "stat", which is bound nowhere
AlbumBlock(item, list) ==
    IF item.album = Unknown
      THEN [exc |-> Raised("NameError", 115), list |-> list]
      ELSE LET l2 == IF Contains(list, item.album) THEN list ELSE Append(list, item.album)
           IN  IF item.album_ascii = Empty
                 THEN [exc |-> Raised("AttributeError", 119), list |-> l2]
                 ELSE [exc |-> NoException, list |-> l2]

\* lines 121-128: lines 122 and 127 raise before lines 123 and 128 run
TitleBlock(item, list) ==
    IF item.title = Unknown
      THEN [exc |-> Raised("AttributeError", 122), list |-> list]
      ELSE LET l2 == IF Contains(list, item.title) THEN list ELSE Append(list, item.title)
           IN  IF item.title_ascii = Empty
                 THEN [exc |-> Raised("AttributeError", 127), list |-> l2]
                 ELSE [exc |-> NoException, list |-> l2]

\* a variant of TitleOnLeavingBlock: the title is suffixed before the counter
\* is updated
TitleSuffixedFirst(item) ==
    IF item.title = Unknown \/ item.title_ascii = Empty
      THEN item.title \o IntToStr(1)
      ELSE item.title

\* item.title when the block of lines 121-128 is left, normally or by an
\* exception: the statements that assign it (123, 128) each follow one that
\* raises, so it is the title the block was entered with
TitleOnLeavingBlock(item) == item.title

\* one pass of the loop body (lines 107-128) over item: the first exception
\* raised, the three lists and the item afterwards
LoopBody(item) ==
    LET a == ArtistBlock(item, artist_list)
        b == AlbumBlock(item, album_list)
        t == TitleBlock(item, title_list)
    IN  IF a.exc # NoException
          THEN [exc |-> a.exc, artists |-> a.list, albums |-> album_list,
                titles |-> title_list, item |-> item]
        ELSE IF b.exc # NoException
          THEN [exc |-> b.exc, artists |-> a.list, albums |-> b.list,
                titles |-> title_list, item |-> item]
        ELSE [exc |-> t.exc, artists |-> a.list, albums |-> b.list, titles |-> t.list,
              item |-> [item EXCEPT !.title = TitleOnLeavingBlock(item)]]

\* the MusicSong objects the statistics pass is given: built by MusicSong from
\* one tag value per field
StatArtists == {Unknown, <<"A", " ", "b">>, <<"a", "_", "b">>}
StatAlbums == {Unknown, <<"B">>}
StatTitles == {Unknown, <<"T">>, <<PrivateUse>>}
StatSongs == {MusicSong("f", <<a>>, <<b>>, <<t>>) :
                  a \in StatArtists, b \in StatAlbums, t \in StatTitles}

StatIdle == /\ musicsong_object_list = <<>>
            /\ entry_list = <<>>
            /\ stat_i = 0
            /\ artist_list = <<>>
            /\ album_list = <<>>
            /\ title_list = <<>>
            /\ stats = Stats
            /\ stat_pc = "idle"
            /\ stat_exc = NoException

\* lines 100-104; entry_list keeps the list as it was handed over
StatInit == /\ musicsong_object_list \in StringsUpTo(StatSongs, MaxSongs)
            /\ entry_list = musicsong_object_list
            /\ stat_i = 1
            /\ artist_list = <<>>
            /\ album_list = <<>>
            /\ title_list = <<>>
            /\ stats = Stats
            /\ stat_pc = "loop"
            /\ stat_exc = NoException

StatAtItem == /\ stat_pc = "loop"
              /\ stat_i <= Len(musicsong_object_list)

\* a pass of the loop body that raises nothing
StatLoopPass ==
    /\ StatAtItem
    /\ LET r == LoopBody(musicsong_object_list[stat_i])
       IN  /\ r.exc = NoException
           /\ artist_list' = r.artists
           /\ album_list' = r.albums
           /\ title_list' = r.titles
           /\ musicsong_object_list' = [musicsong_object_list EXCEPT ![stat_i] = r.item]
    /\ stat_i' = stat_i + 1
    /\ UNCHANGED <<entry_list, stats, stat_pc, stat_exc>>
    /\ UNCHANGED <<snakeVars, songVars, scanVars, matVars>>

\* a pass of the loop body that raises: get_statistics ends there
StatLoopRaise ==
    /\ StatAtItem
    /\ LET r == LoopBody(musicsong_object_list[stat_i])
       IN  /\ r.exc # NoException
           /\ artist_list' = r.artists
           /\ album_list' = r.albums
           /\ title_list' = r.titles
           /\ musicsong_object_list' = [musicsong_object_list EXCEPT ![stat_i] = r.item]
           /\ stat_exc' = r.exc
    /\ stat_pc' = "raised"
    /\ UNCHANGED <<entry_list, stat_i, stats>>
    /\ UNCHANGED <<snakeVars, songVars, scanVars, matVars>>

\* line 130, after the loop: stats.artists = len(artist_list) assigns to a field
\* of the namedtuple and raises; lines 131-134 are not reached
StatAssignRaise ==
    /\ stat_pc = "loop"
    /\ stat_i > Len(musicsong_object_list)
    /\ stat_exc' = Raised("AttributeError", 130)
    /\ stat_pc' = "raised"
    /\ UNCHANGED <<musicsong_object_list, entry_list, stat_i, artist_list, album_list,
                   title_list, stats>>
    /\ UNCHANGED <<snakeVars, songVars, scanVars, matVars>>

(***************************************************************************)
(* The file system below target_dir.  A path is the sequence of its        *)
(* segments relative to target_dir (<<>> is target_dir itself); dirs is    *)
(* the set of directories that exist.                                      *)
(***************************************************************************)
\* pathlib's "/": joining the empty string leaves the path as it is
Join(path, segment) == IF segment = EmptyStr THEN path ELSE Append(path, segment)

Parent(path) == IF path = <<>> THEN <<>> ELSE SubSeq(path, 1, Len(path) - 1)

\* Path.mkdir() with its defaults (parents=False, exist_ok=False)
MkdirOutcome(path) ==
    IF path \in dirs THEN "FileExistsError"
    ELSE IF Parent(path) \notin dirs THEN "FileNotFoundError"
    ELSE "ok"

\* a variant of NeedsMkdir that does not look at the file system
AlwaysMkdir(dir) == TRUE

\* "if not artist_dir.exists():" (lines 140, 165), "if not album_dir.exists():"
\* (lines 145, 169)
NeedsMkdir(dir) == dir \notin dirs

(***************************************************************************)
(* The argument of move_files_to_folders (main.py:137): a dict from artist *)
(* to a dict from album to a list of (title, file), each dict in insertion *)
(* order.  Here: a sequence of [artist, albums], albums a sequence of      *)
(* [album, tracks], tracks a sequence of [title, file].  The dictionaries  *)
(* the model draws are the groupings of the track lists of at most         *)
(* MaxTracks tracks, which are all the dictionaries of that many tracks    *)
(* with no empty entry.                                                    *)
(***************************************************************************)
MatArtists == {<<"A", " ", "b">>, <<"a", "_", "b">>, <<"!">>}
MatAlbums == {<<"B">>, <<"!">>}
MatTitles == {Unknown, <<"S", "o", "n", "g">>, <<"s", "o", "n", "g">>}
Suffixes == {<<".", "m", "p", "3">>}
TrackKinds == [artist : MatArtists, album : MatAlbums, title : MatTitles,
               suffix : Suffixes]

RECURSIVE Distinct(_)
Distinct(s) ==
    IF s = <<>> THEN <<>>
    ELSE LET d == Distinct(SubSeq(s, 1, Len(s) - 1))
         IN  IF Contains(d, s[Len(s)]) THEN d ELSE Append(d, s[Len(s)])

Indices(s) == [i \in DOMAIN s |-> i]

GroupTracks(tracks) ==
    LET artists == Distinct([i \in DOMAIN tracks |-> tracks[i].artist])
        ofArtist(a) == SelectSeq(Indices(tracks), LAMBDA i : tracks[i].artist = a)
        albumsOf(a) == Distinct([k \in DOMAIN ofArtist(a) |-> tracks[ofArtist(a)[k]].album])
        ofAlbum(a, b) == SelectSeq(ofArtist(a), LAMBDA i : tracks[i].album = b)
        entry(i) == [title |-> tracks[i].title,
                     file  |-> [name |-> i, suffix |-> tracks[i].suffix]]
    IN  [x \in DOMAIN artists |->
           [artist |-> artists[x],
            albums |-> [y \in DOMAIN albumsOf(artists[x]) |->
                          [album  |-> albumsOf(artists[x])[y],
                           tracks |-> [z \in DOMAIN ofAlbum(artists[x], albumsOf(artists[x])[y]) |->
                                         entry(ofAlbum(artists[x], albumsOf(artists[x])[y])[z])]]]]]

RECURSIVE SumLens(_)
SumLens(s) == IF s = <<>> THEN 0 ELSE Len(Head(s)) + SumLens(Tail(s))

\* the number of (title, file) pairs in a dictionary
NumTracks(dd) ==
    SumLens([x \in DOMAIN dd |->
               [n \in 1..SumLens([y \in DOMAIN dd[x].albums |-> dd[x].albums[y].tracks]) |-> n]])

\* the directories a previous run may have left under target_dir
LeftBehind == { {<<>>},
                {<<>>, << <<"a", "_", "b">> >>},
                {<<>>, << <<"a", "_", "b">> >>, << <<"a", "_", "b">>, <<"b">> >>} }

(***************************************************************************)
(* build_directory_tree (main.py:158-176) and move_files_to_folders        *)
(* (main.py:137-155), each called on its own.                              *)
(***************************************************************************)
MatIdle == /\ op = "none"
           /\ data_dictionary = <<>>
           /\ dirs = {<<>>}
           /\ pos = [a |-> 0, b |-> 0, t |-> 0]
           /\ unknown_titles = 0
           /\ mkdir_calls = <<>>
           /\ renames = <<>>
           /\ mat_pc = "idle"
           /\ mat_exc = NoException

MatInit == /\ op \in {"build_directory_tree", "move_files_to_folders"}
           /\ \E tracks \in StringsUpTo(TrackKinds, MaxTracks) :
                 data_dictionary = GroupTracks(tracks)
           /\ dirs \in LeftBehind
           /\ pos = [a |-> 0, b |-> 0, t |-> 0]
           /\ unknown_titles = 0
           /\ mkdir_calls = <<>>
           /\ renames = <<>>
           /\ mat_pc = "call"
           /\ mat_exc = NoException

\* line 162: "for item in music_file_paths" names a variable that is local to
\* main and bound nowhere in build_directory_tree or in the module: NameError,
\* whatever the arguments are; lines 163-176 are not reached
BuildDirectoryTree ==
    /\ mat_pc = "call"
    /\ op = "build_directory_tree"
    /\ mat_pc' = "raised"
    /\ mat_exc' = Raised("NameError", 162)
    /\ UNCHANGED <<op, data_dictionary, dirs, pos, unknown_titles, mkdir_calls, renames>>
    /\ UNCHANGED <<snakeVars, songVars, scanVars, statVars>>

\* where the three nested loops of move_files_to_folders go next
At(pc, a, b, t) == [pc |-> pc, pos |-> [a |-> a, b |-> b, t |-> t]]

EnterArtist(a) ==
    IF a <= Len(data_dictionary) THEN At("artist", a, 0, 0) ELSE At("done", 0, 0, 0)

EnterAlbum(a, b) ==
    IF b <= Len(data_dictionary[a].albums) THEN At("album", a, b, 0) ELSE EnterArtist(a + 1)

EnterTitle(a, b, t) ==
    IF t <= Len(data_dictionary[a].albums[b].tracks) THEN At("title", a, b, t)
    ELSE EnterAlbum(a, b + 1)

GoTo(next) == /\ mat_pc' = next.pc
              /\ pos' = next.pos

CurArtist == data_dictionary[pos.a]
CurAlbum == CurArtist.albums[pos.b]
CurTrack == CurAlbum.tracks[pos.t]

\* lines 139 and 144
ArtistDir(artist) == Join(<<>>, to_snake_case(artist))
AlbumDir(artist, album) == Join(ArtistDir(artist), to_snake_case(album))

\* lines 150-152: the title the file is named after
FinalTitle(title, counter) ==
    IF title = Unknown THEN title \o IntToStr(counter) ELSE title

\* line 153
FileDir(artist, album, title, counter, suffix) ==
    Join(AlbumDir(artist, album), to_snake_case(FinalTitle(title, counter)) \o suffix)

MoveCall ==
    /\ mat_pc = "call"
    /\ op = "move_files_to_folders"
    /\ GoTo(EnterArtist(1))
    /\ UNCHANGED <<op, data_dictionary, dirs, unknown_titles, mkdir_calls, renames, mat_exc>>
    /\ UNCHANGED <<snakeVars, songVars, scanVars, statVars>>

\* dir.mkdir() is called: it succeeds, or raises since Path.mkdir() refuses
Mkdir(dir, line, next) ==
    /\ mkdir_calls' = Append(mkdir_calls, [path |-> dir, existed |-> dir \in dirs])
    /\ IF MkdirOutcome(dir) = "ok"
         THEN /\ dirs' = dirs \cup {dir}
              /\ GoTo(next)
              /\ UNCHANGED mat_exc
         ELSE /\ mat_pc' = "raised"
              /\ mat_exc' = Raised(MkdirOutcome(dir), line)
              /\ UNCHANGED <<dirs, pos>>

\* dir.mkdir() is called and the operating system refuses (permissions, a full
\* disk): OSError
MkdirFails(dir, line) ==
    /\ MkdirOutcome(dir) = "ok"
    /\ mkdir_calls' = Append(mkdir_calls, [path |-> dir, existed |-> dir \in dirs])
    /\ mat_pc' = "raised"
    /\ mat_exc' = Raised("OSError", line)
    /\ UNCHANGED <<dirs, pos>>

\* lines 139-140: the artist directory exists
MoveArtistDirExists ==
    /\ mat_pc = "artist"
    /\ ~NeedsMkdir(ArtistDir(CurArtist.artist))
    /\ GoTo(EnterAlbum(pos.a, 1))
    /\ UNCHANGED <<op, data_dictionary, dirs, unknown_titles, mkdir_calls, renames, mat_exc>>
    /\ UNCHANGED <<snakeVars, songVars, scanVars, statVars>>

\* lines 139-142
MoveArtistMkdir ==
    /\ mat_pc = "artist"
    /\ NeedsMkdir(ArtistDir(CurArtist.artist))
    /\ Mkdir(ArtistDir(CurArtist.artist), 142, EnterAlbum(pos.a, 1))
    /\ UNCHANGED <<op, data_dictionary, unknown_titles, renames>>
    /\ UNCHANGED <<snakeVars, songVars, scanVars, statVars>>

MoveArtistMkdirFails ==
    /\ mat_pc = "artist"
    /\ NeedsMkdir(ArtistDir(CurArtist.artist))
    /\ MkdirFails(ArtistDir(CurArtist.artist), 142)
    /\ UNCHANGED <<op, data_dictionary, unknown_titles, renames>>
    /\ UNCHANGED <<snakeVars, songVars, scanVars, statVars>>

\* lines 144-145 and 148: the album directory exists
MoveAlbumDirExists ==
    /\ mat_pc = "album"
    /\ ~NeedsMkdir(AlbumDir(CurArtist.artist, CurAlbum.album))
    /\ unknown_titles' = 0
    /\ GoTo(EnterTitle(pos.a, pos.b, 1))
    /\ UNCHANGED <<op, data_dictionary, dirs, mkdir_calls, renames, mat_exc>>
    /\ UNCHANGED <<snakeVars, songVars, scanVars, statVars>>

\* lines 144-148
MoveAlbumMkdir ==
    /\ mat_pc = "album"
    /\ NeedsMkdir(AlbumDir(CurArtist.artist, CurAlbum.album))
    /\ Mkdir(AlbumDir(CurArtist.artist, CurAlbum.album), 147, EnterTitle(pos.a, pos.b, 1))
    /\ unknown_titles' = IF MkdirOutcome(AlbumDir(CurArtist.artist, CurAlbum.album)) = "ok"
                           THEN 0 ELSE unknown_titles
    /\ UNCHANGED <<op, data_dictionary, renames>>
    /\ UNCHANGED <<snakeVars, songVars, scanVars, statVars>>

MoveAlbumMkdirFails ==
    /\ mat_pc = "album"
    /\ NeedsMkdir(AlbumDir(CurArtist.artist, CurAlbum.album))
    /\ MkdirFails(AlbumDir(CurArtist.artist, CurAlbum.album), 147)
    /\ UNCHANGED <<op, data_dictionary, unknown_titles, renames>>
    /\ UNCHANGED <<snakeVars, songVars, scanVars, statVars>>

\* lines 150-152: the counter after the title has been looked at
CounterAfter(title, counter) == IF title = Unknown THEN counter + 1 ELSE counter

\* lines 149-155: the file is renamed
MoveRename ==
    /\ mat_pc = "title"
    /\ renames' = Append(renames,
          [file   |-> CurTrack.file,
           a      |-> pos.a,
           b      |-> pos.b,
           title  |-> CurTrack.title,
           final  |-> FinalTitle(CurTrack.title, unknown_titles),
           dest   |-> FileDir(CurArtist.artist, CurAlbum.album, CurTrack.title,
                              unknown_titles, CurTrack.file.suffix)])
    /\ unknown_titles' = CounterAfter(CurTrack.title, unknown_titles)
    /\ GoTo(EnterTitle(pos.a, pos.b, pos.t + 1))
    /\ UNCHANGED <<op, data_dictionary, dirs, mkdir_calls, mat_exc>>
    /\ UNCHANGED <<snakeVars, songVars, scanVars, statVars>>

\* lines 149-155: file.rename raises OSError
MoveRenameFails ==
    /\ mat_pc = "title"
    /\ unknown_titles' = CounterAfter(CurTrack.title, unknown_titles)
    /\ mat_pc' = "raised"
    /\ mat_exc' = Raised("OSError", 155)
    /\ UNCHANGED <<op, data_dictionary, dirs, pos, mkdir_calls, renames>>
    /\ UNCHANGED <<snakeVars, songVars, scanVars, statVars>>

(***************************************************************************)
(* The specification.  Init picks the entry point that is exercised and    *)
(* its arguments; the variables of the other entry points stay idle.       *)
(***************************************************************************)
Init == \/ SnakeInit /\ SongIdle /\ ScanIdle /\ StatIdle /\ MatIdle
        \/ SnakeIdle /\ SongInit /\ ScanIdle /\ StatIdle /\ MatIdle
        \/ SnakeIdle /\ SongIdle /\ ScanInit /\ StatIdle /\ MatIdle
        \/ SnakeIdle /\ SongIdle /\ ScanIdle /\ StatInit /\ MatIdle
        \/ SnakeIdle /\ SongIdle /\ ScanIdle /\ StatIdle /\ MatInit

Next == \/ CallToSnakeCase
        \/ CreateMusicSongObject
        \/ ScanSkipDirectory
        \/ ScanMusicFile
        \/ ScanNonMusicFile
        \/ ScanReadError
        \/ ScanReturn
        \/ StatLoopPass
        \/ StatLoopRaise
        \/ StatAssignRaise
        \/ BuildDirectoryTree
        \/ MoveCall
        \/ MoveArtistDirExists
        \/ MoveArtistMkdir
        \/ MoveArtistMkdirFails
        \/ MoveAlbumDirExists
        \/ MoveAlbumMkdir
        \/ MoveAlbumMkdirFails
        \/ MoveRename
        \/ MoveRenameFails

Spec == Init /\ [][Next]_vars

(***************************************************************************)
(* Properties.                                                             *)
(***************************************************************************)
HasAlnum(s) == \E i \in DOMAIN s : IsAlnum(s[i])

\* C1: the destinations move_files_to_folders renames files to are pairwise
\* distinct: no two source files are renamed to the same path.
DestinationsDistinct ==
    \A i, j \in DOMAIN renames : i # j => renames[i].dest # renames[j].dest

\* the renames before the i-th that are in its bucket and have its title key
EarlierSameKey(i) ==
    {j \in 1..(i - 1) : /\ renames[j].a = renames[i].a
                        /\ renames[j].b = renames[i].b
                        /\ to_snake_case(renames[j].title) = to_snake_case(renames[i].title)}

\* C2: in a bucket, the first track with a given title key is named by that
\* key without a suffix, and the N-th track with that key (N >= 2) is named
\* after its title with the suffix N-1.
SuffixExactlyOnCollision ==
    \A i \in DOMAIN renames :
        LET n == Cardinality(EarlierSameKey(i))
        IN  to_snake_case(renames[i].final) =
                IF n = 0 THEN to_snake_case(renames[i].title)
                ELSE to_snake_case(renames[i].title \o IntToStr(n))

SongFields == {"artist", "album", "title", "artist_ascii", "album_ascii", "title_ascii"}

\* C3: no field of a MusicSong built by create_musicsong_object is the empty
\* string.
NoEmptyField ==
    song_pc = "returned" => \A f \in SongFields : song[1][f] # EmptyStr

\* C4: to_snake_case(s) is non-empty if and only if s contains an ASCII letter
\* or digit.
SnakeNonEmptyIffAlnum ==
    snake_pc = "returned" => ((snake[1] # EmptyStr) <=> HasAlnum(string))

\* C4, witness: a non-empty string with no letter or digit was converted, to
\* the empty string.
SnakeOfSymbolsReturned ==
    /\ snake_pc = "returned"
    /\ string # EmptyStr
    /\ ~HasAlnum(string)
    /\ snake[1] = EmptyStr

\* C5: every destination has exactly three segments below target_dir: the
\* artist key, the album key, and the title key followed by the file's suffix.
ThreeSegments ==
    \A i \in DOMAIN renames :
        LET r == renames[i]
        IN  r.dest = << to_snake_case(data_dictionary[r.a].artist),
                        to_snake_case(data_dictionary[r.a].albums[r.b].album),
                        to_snake_case(r.final) \o r.file.suffix >>

\* the music files of a listing, in its order
MusicFiles(listing) == SelectSeq(Indices(listing), LAMBDA i : listing[i] = "music")

ScanEnded == scan_pc \in {"returned", "raised"}

\* C6, as claimed: the scan ends by returning, with every music file of the
\* directory in the list and the run going on, also when the tag reader failed
\* on a file.
ScanDropsOnlyUnreadableFile ==
    ScanEnded => /\ scan_pc = "returned"
                 /\ main_pc # "aborted"
                 /\ valid_files_list = MusicFiles(scan_dir)

\* C6, amended: a tag reader failure is logged and raised again: the scan ends
\* at that file without a list and the run is aborted. The scan goes past
\* directories, music files and files that are not music (dropped with a
\* warning) only, and then returns the music files it went past, as if the
\* others were absent.
ScanReadErrorEndsRun ==
    /\ scan_pc = "loop" =>
          /\ \A j \in 1..(scan_i - 1) : scan_dir[j] # "error"
          /\ valid_files_list = MusicFiles(SubSeq(scan_dir, 1, scan_i - 1))
    /\ scan_pc = "raised" =>
          /\ scan_dir[scan_i] = "error"
          /\ \A j \in 1..(scan_i - 1) : scan_dir[j] # "error"
          /\ scan_log[Len(scan_log)] = [level |-> "error", item |-> scan_i]
          /\ main_pc = "aborted"
    /\ scan_pc = "returned" =>
          /\ \A j \in DOMAIN scan_dir : scan_dir[j] # "error"
          /\ valid_files_list = MusicFiles(scan_dir)
          /\ \A j \in DOMAIN scan_dir :
                scan_dir[j] = "other" <=>
                    \E k \in DOMAIN scan_log : scan_log[k] = [level |-> "warning", item |-> j]
          /\ main_pc = "line323"

\* C6, witness: the tag reader failed on a file that follows a file that is not
\* music and precedes a music file; the scan ended there.
ScanEndedBeforeMusicFile ==
    /\ scan_pc = "raised"
    /\ \E j \in 1..(scan_i - 1) : scan_dir[j] = "other"
    /\ \E j \in (scan_i + 1)..Len(scan_dir) : scan_dir[j] = "music"
    /\ valid_files_list = <<>>

\* C7: when a directory creation or a rename fails, every track of the
\* dictionary is still attempted: the failure is that of the last track's
\* rename, or the loops go on.
ContinuesAfterFailure ==
    (mat_pc = "raised" /\ mat_exc.name = "OSError") =>
        Len(renames) + (IF mat_exc.line = 155 THEN 1 ELSE 0) = NumTracks(data_dictionary)

\* C8: mkdir is never called on a directory that exists, and no existing
\* directory makes the run fail.
MkdirOnlyOnAbsent ==
    /\ \A i \in DOMAIN mkdir_calls : ~mkdir_calls[i].existed
    /\ mat_exc.name # "FileExistsError"

\* C8, witness: move_files_to_folders has returned after going through two
\* artists with one artist directory, which a previous run had left with its
\* album directory, and it made no directory.
ReusedExistingDirectories ==
    /\ mat_pc = "done"
    /\ Len(data_dictionary) = 2
    /\ ArtistDir(data_dictionary[1].artist) = ArtistDir(data_dictionary[2].artist)
    /\ ArtistDir(data_dictionary[1].artist) # <<>>
    /\ Len(renames) = 2
    /\ mkdir_calls = <<>>

KeysOf(list, f) == {to_snake_case(list[i][f]) : i \in DOMAIN list}
CountOf(list, f, value) == Cardinality({i \in DOMAIN list : list[i][f] = value})

\* C10: get_statistics returns, reporting the numbers of distinct snake_case
\* keys of the ASCII artist, album and title fields, and the numbers of tracks
\* whose field is "Unknown" or whose ASCII field is "Empty".
StatReportsKeyCounts ==
    stat_pc \in {"returned", "raised"} =>
        /\ stat_pc = "returned"
        /\ stats.artists = Cardinality(KeysOf(entry_list, "artist_ascii"))
        /\ stats.albums = Cardinality(KeysOf(entry_list, "album_ascii"))
        /\ stats.titles = Cardinality(KeysOf(entry_list, "title_ascii"))
        /\ stats.unknown_artists = CountOf(entry_list, "artist", Unknown)
        /\ stats.unknown_albums = CountOf(entry_list, "album", Unknown)
        /\ stats.unknown_titles = CountOf(entry_list, "title", Unknown)
        /\ stats.empty_artists = CountOf(entry_list, "artist_ascii", Empty)
        /\ stats.empty_albums = CountOf(entry_list, "album_ascii", Empty)
        /\ stats.empty_titles = CountOf(entry_list, "title_ascii", Empty)

====
